---------------------------- MODULE Spec2Model ----------------------------
(***************************************************************************)
(* Model of the transcription backend, following src/server.js (the        *)
(* variant src/unnamed/part_000 shares its helpers; its YouTube route and  *)
(* its post-processing are modelled apart): the request pipeline           *)
(*   acquire (YouTube download | multer upload) -> convertVideoToAudio     *)
(*   -> transcribeAudio (upload, submit, poll) -> respond -> cleanupFile   *)
(* Each action is one segment of a handler between two real suspension     *)
(* points (an I/O event of the Node event loop); promise continuations     *)
(* run as microtasks and therefore belong to the segment that settles      *)
(* the promise.                                                            *)
(*                                                                         *)
(* Strings are sequences of tokens; the tokens are chosen so that the      *)
(* substrings the code searches for (".mp3", ".wav") are whole tokens.     *)
(*                                                                         *)
(* Specifications:                                                         *)
(*   Spec          two concurrent requests, unlinkSync may throw           *)
(*   SpecOne       one request alone, unlinkSync may throw                 *)
(*   FairSpecOne   SpecOne under a fair event loop                         *)
(*   SpecReliable  one request alone, unlinkSync never throws              *)
(*   SpecNormalize convertVideoToAudio called with any output path         *)
(*   SpecPair      two concurrent requests, unlinkSync never throws        *)
(*   SpecTranscribe transcribeAudio called with any options                *)
(*   SpecValidate  validateMediaFile called on any stored file             *)
(*   SpecVariants  a request under src/server.js, then the same request    *)
(*                 under src/unnamed/part_000, unlinkSync never throws     *)
(***************************************************************************)
EXTENDS Integers, Sequences, FiniteSets, TLC

VARIABLES req, fs, now, envKey, harness, unlinkMayThrow

vars == <<req, fs, now, envKey, harness, unlinkMayThrow>>

(***************************************************************************)
(* Bounds of the model.                                                    *)
(***************************************************************************)
\* the clock (Date.now(), in milliseconds since the first request) stops here
MaxClock == 1
\* the poll counters saturate here (the loop itself has no cap)
PollCap == 4
\* longest output path, in tokens, handed to convertVideoToAudio directly
MaxPathLen == 4

\* the concurrent requests of the model
Requests == {"r1", "r2"}

(***************************************************************************)
(* Strings.                                                                *)
(***************************************************************************)
NoPath == <<>>

\* String.prototype.endsWith for a whole-token suffix
EndsWith(s, suffix) == Len(s) > 0 /\ s[Len(s)] = suffix

\* the index of the first occurrence of token a in s, 0 when there is none
IndexOf(s, a) ==
  IF \E i \in 1..Len(s) : s[i] = a
    THEN CHOOSE i \in 1..Len(s) : s[i] = a /\ \A j \in 1..(i - 1) : s[j] # a
    ELSE 0

\* String.prototype.replace(a, b) with a string pattern: the FIRST occurrence
\* of a is replaced, the rest of the string is kept
ReplaceFirst(s, a, b) ==
  IF IndexOf(s, a) = 0 THEN s ELSE [s EXCEPT ![IndexOf(s, a)] = b]

\* wavPath of the fallback: outputPath.replace('.mp3', '.wav')
WavPath(outputPath) == ReplaceFirst(outputPath, ".mp3", ".wav")

\* `${Date.now()}`: the decimal string of a clock value
MsToString(t) ==
  <<"1700000000000", "1700000000001", "1700000000002", "1700000000003",
    "1700000000004", "1700000000005", "1700000000006", "1700000000007">>[t + 1]

(***************************************************************************)
(* convertVideoToAudio: the decisions of one call.                         *)
(***************************************************************************)
\* const isWav = outputPath.endsWith('.wav')
IsWav(outputPath) == EndsWith(outputPath, ".wav")

\* the codec/format the command is built with
Codec(outputPath) == IF IsWav(outputPath) THEN "pcm_s16le" ELSE "libmp3lame"

\* a mutant: the fallback taken whatever the target
RetriesAlways(outputPath) == TRUE

\* the 'error' handler's test: if (!isWav && outputPath.endsWith('.mp3'))
RetriesAsWav(outputPath) == ~IsWav(outputPath) /\ EndsWith(outputPath, ".mp3")


(***************************************************************************)
(* Process-wide configuration.                                             *)
(***************************************************************************)
\* process.env.ASSEMBLYAI_API_KEY when the variable is not set
Unset == "<unset>"

Placeholder == "sua-chave-aqui"

EnvValues == {Unset, "", Placeholder, "sk-live"}

\* const ASSEMBLYAI_API_KEY = process.env.ASSEMBLYAI_API_KEY || 'sua-chave-aqui'
ASSEMBLYAI_API_KEY == IF envKey \in {Unset, ""} THEN Placeholder ELSE envKey

\* setTimeout(resolve, 3000) of the polling loop
PollIntervalMs == 3000

(***************************************************************************)
(* The file system: the paths that exist, each with the request whose      *)
(* stage wrote it last and its size (0: empty or partial).                 *)
(***************************************************************************)
Exists(fsys, p) == p \in DOMAIN fsys

WriteFile(fsys, p, r, sz) ==
  [q \in DOMAIN fsys \cup {p} |->
     IF q = p THEN [owner |-> r, size |-> sz] ELSE fsys[q]]

Unlink(fsys, p) == [q \in DOMAIN fsys \ {p} |-> fsys[q]]

\* a mutant: the exception of unlinkSync leaves cleanupFile
cleanupFileUncaught(fsys, filePath, unlinkThrows) ==
  [fs |-> IF Exists(fsys, filePath) /\ ~unlinkThrows THEN Unlink(fsys, filePath) ELSE fsys,
   raised |-> Exists(fsys, filePath) /\ unlinkThrows]

\* cleanupFile(filePath): the file is removed when it exists and unlinkSync
\* does not throw; an exception of unlinkSync is caught and logged, nothing
\* is raised to the caller
cleanupFile(fsys, filePath, unlinkThrows) ==
  [fs |-> IF Exists(fsys, filePath) /\ ~unlinkThrows THEN Unlink(fsys, filePath) ELSE fsys,
   raised |-> FALSE]

(***************************************************************************)
(* Requests.                                                               *)
(***************************************************************************)
NoFile == [path |-> NoPath, originalname |-> <<>>]

NoAnswer == [kind |-> "none", status |-> "", text |-> <<>>, confidence |-> 0,
             language_code |-> "", error |-> "", http |-> 0, body |-> ""]

\* operations: { translated, formatted } of a body that has none
NoOperations == [translated |-> FALSE, formatted |-> FALSE]

\* no response sent; `keys` holds the keys of the JSON body
NoResp == [status |-> 0, keys |-> {}, error |-> <<>>, transcription |-> <<>>,
           originalTranscription |-> <<>>, processedTranscription |-> <<>>,
           confidence |-> 0, language_detected |-> "",
           operations |-> NoOperations]

\* a key an object does not have
Absent == "<absent>"

\* no job-submission request in flight
NoBody == [audio_url |-> <<>>, language_detection |-> Absent, punctuate |-> Absent,
           format_text |-> Absent, language |-> Absent, language_code |-> Absent]

IdleReq ==
  [pc |-> "idle", route |-> "none", url |-> "", options |-> "",
   file |-> NoFile, audioPath |-> NoPath, convertedPath |-> NoPath,
   ws |-> "none", inputPath |-> NoPath, outputPath |-> NoPath,
   encoder |-> "none", tried |-> <<>>, convResult |-> NoPath, convError |-> 0,
   uploads |-> 0, uploaded |-> NoPath, audioUrl |-> <<>>,
   submits |-> 0, body |-> NoBody, transcriptId |-> <<>>, polledId |-> <<>>,
   reqs |-> 0, waitedMs |-> 0, nonterm |-> 0, lastPoll |-> NoAnswer,
   failedCall |-> NoAnswer,
   shouldTranslate |-> FALSE, shouldFormat |-> FALSE,
   thrown |-> <<>>, resp |-> NoResp, sent |-> 0,
   cleaned |-> <<>>, raised |-> FALSE]

\* req.body.language: absent, 'auto', or a language code
Languages == {"", "auto", "en"}

\* req.body.url of a request that has none
NoUrl == "<undefined>"

\* req.body.url
Urls == {"https://youtu.be/v1", "not-a-video", NoUrl}

\* file.originalname of an upload
OriginalNames == {<<"talk", ".mp4">>, <<"notes", ".txt">>}

\* play.validate(url) begins with url.trim(): on a url that is not a string
\* this throws a TypeError and the promise rejects
ValidateRejects(url) == url = NoUrl

\* play.validate(url): 'yt_video' for a YouTube video URL
PlayValidate(url) == IF url = "https://youtu.be/v1" THEN "yt_video" ELSE "search"

\* the raw file of the request: audioPath (YouTube) or req.file?.path (upload)
RawPath(rec) == IF rec.route = "youtube" THEN rec.audioPath ELSE rec.file.path

ErrorPrefix(rec) ==
  IF rec.route = "youtube" THEN "Erro ao processar vídeo do YouTube: "
  ELSE "Erro ao processar arquivo: "

\* res.json({ transcription: result.text, confidence, language_detected })
Json200(result) ==
  [NoResp EXCEPT !.status = 200,
                 !.keys = {"transcription", "confidence", "language_detected"},
                 !.transcription = result.text,
                 !.confidence = result.confidence,
                 !.language_detected = result.language_code]

\* res.status(400).json({ error: msg })
Json400(msg) == [NoResp EXCEPT !.status = 400, !.keys = {"error"}, !.error = msg]

\* a mutant: a generic 500 without the error's message
Json500Generic(rec, message) ==
  [NoResp EXCEPT !.status = 500, !.keys = {"error"}, !.error = <<ErrorPrefix(rec)>>]

\* the catch block: res.status(500).json({ error: prefix + error.message })
Json500(rec, message) ==
  [NoResp EXCEPT !.status = 500, !.keys = {"error"},
                 !.error = <<ErrorPrefix(rec)>> \o message]

\* whether a call of fs.unlinkSync throws: never on a storage that always
\* lets files be removed, either way otherwise
UnlinkThrows == IF unlinkMayThrow THEN BOOLEAN ELSE {FALSE}

\* the response (res.json, counted in `sent`), then the finally block:
\* cleanupFile(raw); cleanupFile(convertedPath).
\* An exception raised by the first call would leave the block before the
\* second call and reject the handler's promise.
Finish(r, rec, fsys, response) ==
  \E t1, t2 \in UnlinkThrows :
    LET first == cleanupFile(fsys, RawPath(rec), t1) IN
    IF first.raised
      THEN /\ fs' = first.fs
           /\ req' = [req EXCEPT ![r] =
                        [rec EXCEPT !.pc = "done", !.resp = response,
                                    !.sent = @ + 1,
                                    !.cleaned = <<RawPath(rec)>>,
                                    !.raised = TRUE]]
      ELSE LET second == cleanupFile(first.fs, rec.convertedPath, t2) IN
           /\ fs' = second.fs
           /\ req' = [req EXCEPT ![r] =
                        [rec EXCEPT !.pc = "done", !.resp = response,
                                    !.sent = @ + 1,
                                    !.cleaned = <<RawPath(rec), rec.convertedPath>>,
                                    !.raised = second.raised]]

\* a mutant: the error answered, the handler left where it was
FailAndGoOn(r, rec, fsys, message) ==
  /\ fs' = fsys
  /\ req' = [req EXCEPT ![r] = [rec EXCEPT !.thrown = message,
                                           !.resp = Json500(rec, message),
                                           !.sent = @ + 1]]

\* the catch block answers an exception with 500 and its message
Fail(r, rec, fsys, message) ==
  Finish(r, [rec EXCEPT !.thrown = message], fsys, Json500(rec, message))

(***************************************************************************)
(* Post-processing of the transcribed text.  A text is a sequence of       *)
(* tokens: words, the sentence terminators and white space.                *)
(***************************************************************************)
\* translateText: `[TRADUÇÃO SIMULADA] ${text}`
translateText(text) == <<"[TRADUÇÃO SIMULADA]", " ">> \o text

\* the characters of /[.!?]+/ ("..." is a run of them)
Terminators == {".", "!", "?", "..."}

\* the white space String.prototype.trim removes
WhiteSpace == {" ", "\n", "\n\n"}

\* the tokens of a text with the dot of an extension set apart
RECURSIVE Characters(_)
Characters(text) ==
  IF text = <<>> THEN <<>>
  ELSE (IF Head(text) = ".wav" THEN <<".", "wav">> ELSE <<Head(text)>>)
         \o Characters(Tail(text))

\* text.split(/[.!?]+/): the pieces between the runs of terminators, the
\* empty pieces before a leading and after a trailing run included
RECURSIVE Split(_)
Split(text) ==
  IF text = <<>> THEN << <<>> >>
  ELSE LET rest == Split(Tail(text)) IN
       IF Head(text) \in Terminators
         THEN IF Tail(text) # <<>> /\ Head(Tail(text)) \in Terminators
                THEN rest
                ELSE << <<>> >> \o rest
         ELSE << <<Head(text)>> \o Head(rest) >> \o Tail(rest)

RECURSIVE TrimStart(_)
TrimStart(s) ==
  IF s # <<>> /\ Head(s) \in WhiteSpace THEN TrimStart(Tail(s)) ELSE s

RECURSIVE TrimEnd(_)
TrimEnd(s) ==
  IF s # <<>> /\ s[Len(s)] \in WhiteSpace
    THEN TrimEnd(SubSeq(s, 1, Len(s) - 1)) ELSE s

\* sentence.trim()
Trim(s) == TrimEnd(TrimStart(s))

\* sentences.join('.\n\n')
RECURSIVE Join(_)
Join(sentences) ==
  IF sentences = <<>> THEN <<>>
  ELSE IF Len(sentences) = 1 THEN Head(sentences)
  ELSE Head(sentences) \o <<".\n\n">> \o Join(Tail(sentences))

\* sentence => sentence.trim().length > 0
NonBlank(sentence) == Trim(sentence) # <<>>

\* formatText: the non-blank sentences, trimmed, joined by '.\n\n', and a
\* final '.'
formatText(text) ==
  LET kept == SelectSeq(Split(Characters(text)), NonBlank) IN
  Join([i \in 1..Len(kept) |-> Trim(kept[i])]) \o <<".">>

\* processedText: translation when asked, then formatting when asked
ProcessedText(text, shouldTranslate, shouldFormat) ==
  LET translated == IF shouldTranslate THEN translateText(text) ELSE text IN
  IF shouldFormat THEN formatText(translated) ELSE translated

\* res.json({ originalTranscription, processedTranscription, confidence,
\*            language_detected, operations: { translated, formatted } })
JsonProcessed(result, shouldTranslate, shouldFormat) ==
  [NoResp EXCEPT !.status = 200,
                 !.keys = {"originalTranscription", "processedTranscription",
                           "confidence", "language_detected", "operations"},
                 !.originalTranscription = result.text,
                 !.processedTranscription =
                    ProcessedText(result.text, shouldTranslate, shouldFormat),
                 !.confidence = result.confidence,
                 !.language_detected = result.language_code,
                 !.operations = [translated |-> shouldTranslate,
                                 formatted |-> shouldFormat]]

\* the server variant that handles a request: src/server.js (play-dl), or
\* src/unnamed/part_000 (ytdl-core) for the replayed request
Variant(r) ==
  IF harness = "variants" /\ r = "r2" THEN "part_000" ELSE "server.js"

\* req.body.shouldTranslate and req.body.shouldFormat (inputs nothing reads
\* before the result is there); none is asked of the concurrent server
Flags == IF harness \in {"single", "variants"} THEN BOOLEAN ELSE {FALSE}

\* a mutant: the processed answer without its `return`, so that the plain
\* answer is sent after it
RespondFallsThrough(r, rec, fsys, result) ==
  \E st, sf \in Flags :
    LET asked == [rec EXCEPT !.shouldTranslate = st, !.shouldFormat = sf] IN
    IF Variant(r) = "part_000" /\ (st \/ sf)
      THEN Finish(r, [asked EXCEPT !.sent = @ + 1], fsys,
                  JsonProcessed(result, st, sf))
      ELSE Finish(r, asked, fsys, Json200(result))

\* the handler after `const result = await transcribeAudio(...)`:
\* src/server.js answers with the transcription as it is; part_000
\* post-processes when asked and answers with the processed shape
Respond(r, rec, fsys, result) ==
  \E st, sf \in Flags :
    LET asked == [rec EXCEPT !.shouldTranslate = st, !.shouldFormat = sf] IN
    IF Variant(r) = "part_000" /\ (st \/ sf)
      THEN Finish(r, asked, fsys, JsonProcessed(result, st, sf))
      ELSE Finish(r, asked, fsys, Json200(result))


(***************************************************************************)
(* The vendor's answers.                                                   *)
(***************************************************************************)
HttpFail(code, text) == [NoAnswer EXCEPT !.kind = "httpfail", !.http = code, !.body = text]

\* fetch() rejects (no connection), or response.json() rejects
FetchThrows == [NoAnswer EXCEPT !.kind = "throws"]

Completed(text) ==
  [NoAnswer EXCEPT !.kind = "ok", !.http = 200, !.status = "completed",
                   !.text = text, !.confidence = 90, !.language_code = "en"]

JobError(msg) ==
  [NoAnswer EXCEPT !.kind = "ok", !.http = 200, !.status = "error", !.error = msg]

NonTerminal(status) == [NoAnswer EXCEPT !.kind = "ok", !.http = 200, !.status = status]

\* the answers to GET /transcript/:id
PollAnswers ==
  {NonTerminal("queued"), NonTerminal("processing"),
   Completed(<<"hello">>), Completed(<<"...", "and so", ".", " ", "bye", "!">>),
   JobError("bad audio"),
   HttpFail("401", "unauthorized"), FetchThrows}

\* the answers to POST /upload and POST /transcript
PostAnswers ==
  {[NoAnswer EXCEPT !.kind = "ok", !.http = 200],
   HttpFail("401", "unauthorized"), FetchThrows}

\* a mutant: the response body left out of the Error
ThrownMessageNoBody(label, a) ==
  IF a.kind = "httpfail" THEN <<label, a.http>>
  ELSE <<"fetch failed">>

\* error.message of the Error a failed vendor call throws
ThrownMessage(label, a) ==
  IF a.kind = "httpfail" THEN <<label, a.http, " - ", a.body>>
  ELSE <<"fetch failed">>

\* counters of the polling loop saturate at the model's bound
Inc(n) == IF n < PollCap THEN n + 1 ELSE n

AddMs(ms) == IF ms < PollCap * PollIntervalMs THEN ms + PollIntervalMs ELSE ms

(***************************************************************************)
(* transcribeAudio.                                                        *)
(***************************************************************************)
\* path.basename(filePath): the tokens after the directory
Basename(p) == IF Len(p) > 0 /\ p[1] = "uploads/" THEN Tail(p) ELSE p

\* a mutant: no default language in the simulated result
PlaceholderResultNoDefault(filePath, language) ==
  [text |-> <<"Transcrição simulada usando AssemblyAI para o arquivo: ">>
              \o Basename(filePath)
              \o <<"\n\n", "Esta é uma demonstração", ".", " ",
                   "Para funcionar de verdade, você precisa configurar sua chave da AssemblyAI nas variáveis de ambiente",
                   ".">>,
   confidence |-> 95,
   language_code |-> language]

\* the simulated result returned when no credential is configured
\* (confidence 0.95 is counted in hundredths)
PlaceholderResult(filePath, language) ==
  [text |-> <<"Transcrição simulada usando AssemblyAI para o arquivo: ">>
              \o Basename(filePath)
              \o <<"\n\n", "Esta é uma demonstração", ".", " ",
                   "Para funcionar de verdade, você precisa configurar sua chave da AssemblyAI nas variáveis de ambiente",
                   ".">>,
   confidence |-> 95,
   language_code |-> IF language # "" THEN language ELSE "pt"]

\* the simulated result of part_000: the same but for a longer explanation
PlaceholderResultPart000(filePath, language) ==
  [text |-> <<"Transcrição simulada usando AssemblyAI para o arquivo: ">>
              \o Basename(filePath)
              \o <<"\n\n", "Esta é uma demonstração", ".", " ",
                   "Para funcionar de verdade, você precisa:", "\n", "1", ".", " ",
                   "Configurar sua chave da AssemblyAI", "\n", "2", ".", " ",
                   "Adicionar ASSEMBLYAI_API_KEY nas variáveis de ambiente",
                   "\n\n", "O arquivo foi processado e convertido com sucesso",
                   ".", " ",
                   "Esta seria a transcrição real do áudio usando a API do AssemblyAI",
                   ".">>,
   confidence |-> 95,
   language_code |-> IF language # "" THEN language ELSE "pt"]

\* transcriptionOptions.language: set only for a concrete language code
OptionsLanguage(language) ==
  IF language # "" /\ language # "auto" THEN language ELSE ""

\* a mutant: the payload of the completed response dropped
ResultBlank(data) == [text |-> <<>>, confidence |-> data.confidence,
                      language_code |-> data.language_code]

\* a mutant: the confidence of the simulated result instead of the payload's
ResultFixedConfidence(data) == [text |-> data.text, confidence |-> 95,
                                language_code |-> data.language_code]

\* the result transcribeAudio builds from the completed job
ResultOf(data) == [text |-> data.text, confidence |-> data.confidence,
                   language_code |-> data.language_code]

\* data.upload_url of the vendor's answer to a request's upload
UploadUrl(r) == <<"https://cdn.assemblyai.com/upload/", r>>

\* data.id of the vendor's answer to a request's job submission
JobId(r) == <<"job-", r>>

\* the options.language transcribeAudio is called with: what the route makes
\* of req.body.language (an input nothing reads before that call), or the
\* caller's value when the function is called directly
OptionsOf(rec) ==
  IF harness = "transcribe" THEN {rec.options}
  ELSE {OptionsLanguage(l) : l \in Languages}

\* a mutant: language_detection set to false instead of deleted
TranscriptRequestExplicit(audioUrl, language) ==
  [audio_url |-> audioUrl,
   language_detection |-> IF language = "" \/ language = "auto" THEN "true" ELSE "false",
   punctuate |-> "true", format_text |-> "true",
   language |-> IF language = "" THEN Absent ELSE language,
   language_code |-> IF language # "" /\ language # "auto" THEN language ELSE Absent]

\* the transcriptRequest of startTranscription(audioUrl, options): the
\* defaults, then ...options (a language key when options has one), then for
\* a concrete language language_code is set and language_detection deleted
TranscriptRequest(audioUrl, language) ==
  LET defaults ==
        [audio_url |-> audioUrl,
         language_detection |->
           IF language = "" \/ language = "auto" THEN "true" ELSE "false",
         punctuate |-> "true", format_text |-> "true",
         language |-> IF language = "" THEN Absent ELSE language,
         language_code |-> Absent] IN
  IF language # "" /\ language # "auto"
    THEN [defaults EXCEPT !.language_code = language, !.language_detection = Absent]
    ELSE defaults

\* transcribeAudio(convertedPath, options) up to its first suspension:
\* the placeholder result without a credential, else readFileSync and the
\* upload request
BeginTranscribe(r, rec, fsys) ==
  IF ASSEMBLYAI_API_KEY = Placeholder
    THEN \E o \in OptionsOf(rec) :
           Respond(r, [rec EXCEPT !.options = o], fsys,
                   IF Variant(r) = "part_000"
                     THEN PlaceholderResultPart000(rec.convertedPath, o)
                     ELSE PlaceholderResult(rec.convertedPath, o))
    ELSE IF ~Exists(fsys, rec.convertedPath)
      THEN Fail(r, rec, fsys, <<"ENOENT: no such file or directory">>)
      ELSE /\ req' = [req EXCEPT ![r] =
                        [rec EXCEPT !.pc = "uploading", !.uploads = @ + 1,
                                    !.uploaded = rec.convertedPath]]
           /\ fs' = fsys

\* POST /upload answers; on success startTranscription(audioUrl, options)
\* builds its request and posts the job
UploadResp(r) ==
  /\ req[r].pc = "uploading"
  /\ \E a \in PostAnswers :
       IF a.kind = "ok"
         THEN /\ \E o \in OptionsOf(req[r]) :
                   req' = [req EXCEPT ![r].pc = "submitting",
                                      ![r].audioUrl = UploadUrl(r),
                                      ![r].options = o,
                                      ![r].submits = @ + 1,
                                      ![r].body = TranscriptRequest(UploadUrl(r), o)]
              /\ fs' = fs
         ELSE Fail(r, [req[r] EXCEPT !.failedCall = a], fs,
                   ThrownMessage("Erro no upload: ", a))
  /\ UNCHANGED <<now, envKey, harness, unlinkMayThrow>>

\* a mutant: the job posted again instead of answering
SubmitRespRetries(r) ==
  /\ req[r].pc = "submitting"
  /\ req' = [req EXCEPT ![r].submits = Inc(@)]
  /\ UNCHANGED <<fs, now, envKey, harness, unlinkMayThrow>>

\* POST /transcript answers (the request and the options are not read
\* again); on success waitForTranscription(data.id) sends its first status
\* request
SubmitResp(r) ==
  /\ req[r].pc = "submitting"
  /\ \E a \in PostAnswers :
       LET rec == [req[r] EXCEPT !.body = NoBody,
                                 !.options = IF harness = "transcribe" THEN @ ELSE ""] IN
       IF a.kind = "ok"
         THEN /\ req' = [req EXCEPT ![r] =
                           [rec EXCEPT !.pc = "polling", !.reqs = 1,
                                       !.transcriptId = JobId(r),
                                       !.polledId = JobId(r)]]
              /\ fs' = fs
         ELSE Fail(r, [rec EXCEPT !.failedCall = a], fs,
                   ThrownMessage("Erro ao iniciar transcrição: ", a))
  /\ UNCHANGED <<now, envKey, harness, unlinkMayThrow>>

\* a mutant: the loop gives up on the first non-terminal answer
LeavesLoopAlways(a) == TRUE

\* whether an answer ends the while (true) loop of waitForTranscription
LeavesLoop(a) == a.kind # "ok" \/ a.status = "completed" \/ a.status = "error"

\* a mutant: the vendor's message left out of the Error
JobErrorMessageBare(a) == <<"Erro na transcrição: ">>

\* throw new Error(`Erro na transcrição: ${data.error}`)
JobErrorMessage(a) == <<"Erro na transcrição: ", a.error>>

\* GET /transcript/:id answers
PollResp(r) ==
  /\ req[r].pc = "polling"
  /\ \E a \in PollAnswers :
       LET rec == [req[r] EXCEPT !.lastPoll = a] IN
       IF ~LeavesLoop(a)
         THEN /\ req' = [req EXCEPT ![r] = [rec EXCEPT !.pc = "delaying",
                                                        !.nonterm = Inc(@)]]
              /\ fs' = fs
         ELSE IF a.kind # "ok"
           THEN Fail(r, [rec EXCEPT !.failedCall = a], fs,
                     ThrownMessage("Erro ao verificar status: ", a))
           ELSE IF a.status = "completed"
             THEN Respond(r, rec, fs, ResultOf(a))
             ELSE Fail(r, rec, fs, JobErrorMessage(a))
  /\ UNCHANGED <<now, envKey, harness, unlinkMayThrow>>

\* the 3 s timer fires: the loop's next iteration (a fresh `data`) sends the
\* next status request
DelayDone(r) ==
  /\ req[r].pc = "delaying"
  /\ req' = [req EXCEPT ![r].pc = "polling", ![r].reqs = Inc(@),
                        ![r].polledId = req[r].transcriptId,
                        ![r].waitedMs = AddMs(@), ![r].lastPoll = NoAnswer]
  /\ UNCHANGED <<fs, now, envKey, harness, unlinkMayThrow>>

(***************************************************************************)
(* convertVideoToAudio.                                                    *)
(***************************************************************************)
\* convertVideoToAudio(inputPath, outputPath): the command is built and
\* command.save(outputPath) starts the encoder
StartConvert(rec, inputPath, outputPath) ==
  [rec EXCEPT !.pc = "converting", !.inputPath = inputPath,
              !.outputPath = outputPath, !.tried = Append(@, outputPath),
              !.encoder = "spawned"]

\* the encoder process has read its input's header and opens its output:
\* the file is created, or truncated when it is there (ffmpeg -y)
ConvOpen(r) ==
  /\ req[r].pc = "converting"
  /\ req[r].encoder = "spawned"
  /\ Exists(fs, req[r].inputPath)
  /\ req' = [req EXCEPT ![r].encoder = "writing"]
  /\ fs' = WriteFile(fs, req[r].outputPath, r, 0)
  /\ UNCHANGED <<now, envKey, harness, unlinkMayThrow>>

\* 'end': the encoder has written its output through the file it opened
\* (a path unlinked or reopened by someone else since then is not what it
\* wrote); resolve(outputPath), and in a handler the awaiting code goes on
\* with transcribeAudio(convertedPath, ...)
ConvEnd(r) ==
  /\ req[r].pc = "converting"
  /\ req[r].encoder = "writing"
  /\ LET out == req[r].outputPath
         fsys == IF Exists(fs, out) /\ fs[out].owner = r
                   THEN WriteFile(fs, out, r, 1) ELSE fs
         rec == [req[r] EXCEPT !.convResult = out, !.encoder = "none"] IN
       IF harness = "normalize"
         THEN /\ req' = [req EXCEPT ![r] = [rec EXCEPT !.pc = "resolved"]]
              /\ fs' = fsys
         ELSE BeginTranscribe(r, rec, fsys)
  /\ UNCHANGED <<now, envKey, harness, unlinkMayThrow>>

\* 'error': the fallback call when the test allows it, else reject(err);
\* the failed attempt may leave a partial output file (an encoder that
\* fails at once may or may not have created it)
ConvError(r) ==
  /\ req[r].pc = "converting"
  /\ \E partial \in IF req[r].encoder = "spawned" THEN BOOLEAN ELSE {FALSE} :
       LET fsys == IF partial THEN WriteFile(fs, req[r].outputPath, r, 0) ELSE fs IN
       IF RetriesAsWav(req[r].outputPath)
         THEN /\ req' = [req EXCEPT ![r] =
                           StartConvert(req[r], req[r].inputPath,
                                        WavPath(req[r].outputPath))]
              /\ fs' = fsys
         ELSE LET rec == [req[r] EXCEPT !.convError = Len(req[r].tried),
                                        !.encoder = "none"] IN
              IF harness = "normalize"
                THEN /\ req' = [req EXCEPT ![r] = [rec EXCEPT !.pc = "rejected"]]
                     /\ fs' = fsys
                ELSE Fail(r, rec, fsys, <<"ffmpeg exited with code 1">>)
  /\ UNCHANGED <<now, envKey, harness, unlinkMayThrow>>


(***************************************************************************)
(* POST /api/transcribe-youtube.                                           *)
(***************************************************************************)
\* a mutant: a request is taken only when no other is in flight
MayStartAlone(r) == \A q \in Requests \ {r} : req[q].pc \in {"idle", "done"}

\* which requests arrive: every one under the server with concurrent
\* requests, one alone under the single-request server
\* (under the two variants: the first request, then its replay once the
\* first is answered)
MayStart(r) ==
  \/ harness = "server"
  \/ harness = "single" /\ r = "r1"
  \/ harness = "variants" /\ (r = "r1" \/ req["r1"].pc = "done")

\* whether a request is the replay of the first one on the other variant
IsReplay(r) == harness = "variants" /\ r = "r2"

\* the req.body.url a request may carry: the replay carries the first
\* request's
UrlsOf(r) ==
  IF IsReplay(r)
    THEN IF req["r1"].route = "youtube" THEN {req["r1"].url} ELSE {}
    ELSE Urls

\* the file.originalname a request's upload may carry
NamesOf(r) ==
  IF IsReplay(r)
    THEN IF req["r1"].route = "upload" /\ req["r1"].file # NoFile
           THEN {req["r1"].file.originalname} ELSE {}
    ELSE OriginalNames

\* whether a request may come without a file part
MayLackFile(r) ==
  IsReplay(r) => req["r1"].route = "upload" /\ req["r1"].file = NoFile

\* the request arrives: the handler awaits play.validate(url)
StartYoutube(r) ==
  /\ MayStart(r)
  /\ Variant(r) = "server.js"
  /\ req[r].pc = "idle"
  /\ \E u \in UrlsOf(r) :
       req' = [req EXCEPT ![r].pc = "validating", ![r].route = "youtube",
                          ![r].url = u]
  /\ UNCHANGED <<fs, now, envKey, harness, unlinkMayThrow>>

\* `temp_youtube_${Date.now()}.webm` and `temp_youtube_${Date.now()}.wav`
TempName(t, ext) == <<"temp_youtube_", MsToString(t), ext>>

\* ytdl.validateURL(url): true for a YouTube video URL, false for anything
\* else (a url that is not a string included: the check catches its own
\* exception)
YtdlValidateURL(url) == url = "https://youtu.be/v1"

\* part_000: the request arrives; 400 for anything but a video URL, else
\* the two temp names are taken from the clock, ytdl(url) gives the download
\* stream synchronously, fs.createWriteStream(audioPath) is created and the
\* handler awaits finish/error
StartYoutubePart000(r) ==
  /\ MayStart(r)
  /\ Variant(r) = "part_000"
  /\ req[r].pc = "idle"
  /\ \E u \in UrlsOf(r) :
       LET rec == [req[r] EXCEPT !.route = "youtube", !.url = u] IN
       IF ~YtdlValidateURL(u)
         THEN /\ Finish(r, rec, fs, Json400(<<"URL do YouTube inválida">>))
              /\ now' = now
         ELSE /\ \E d \in 0..1 :
                   /\ now + d <= MaxClock
                   /\ now' = now + d
                   /\ req' = [req EXCEPT ![r] =
                                [rec EXCEPT !.pc = "downloading", !.ws = "opening",
                                            !.audioPath = TempName(now, ".webm"),
                                            !.convertedPath = TempName(now + d, ".wav")]]
              /\ fs' = fs
  /\ UNCHANGED <<envKey, harness, unlinkMayThrow>>

\* validation answers: 400 for anything but a video URL; else the two temp
\* names are taken from the clock (two reads of Date.now(), the second may
\* fall in the next millisecond) and play.stream(url) is awaited
ValidateDone(r) ==
  /\ req[r].pc = "validating"
  /\ IF ValidateRejects(req[r].url)
       THEN /\ Fail(r, req[r], fs,
                    <<"Cannot read properties of undefined (reading 'trim')">>)
            /\ now' = now
     ELSE IF PlayValidate(req[r].url) # "yt_video"
       THEN /\ Finish(r, req[r], fs,
                      Json400(<<"URL do YouTube inválida ou não suportada">>))
            /\ now' = now
       ELSE /\ \E d \in 0..1 :
                 /\ now + d <= MaxClock
                 /\ now' = now + d
                 /\ req' = [req EXCEPT ![r].pc = "streaming",
                                       ![r].audioPath = TempName(now, ".webm"),
                                       ![r].convertedPath = TempName(now + d, ".wav")]
            /\ fs' = fs
  /\ UNCHANGED <<envKey, harness, unlinkMayThrow>>

\* play.stream(url) settles: on success fs.createWriteStream(audioPath) is
\* created (the file is opened asynchronously), the download is piped into
\* it and the handler awaits finish/error
StreamDone(r) ==
  /\ req[r].pc = "streaming"
  /\ \E ok \in BOOLEAN :
       IF ok
         THEN /\ req' = [req EXCEPT ![r].pc = "downloading", ![r].ws = "opening"]
              /\ fs' = fs
         ELSE Fail(r, req[r], fs, <<"stream unavailable">>)
  /\ UNCHANGED <<now, envKey, harness, unlinkMayThrow>>

\* the write stream's open completes: the file is created (flags 'w');
\* nothing ties this event to the handler still waiting
WsOpen(r) ==
  /\ req[r].ws = "opening"
  /\ req' = [req EXCEPT ![r].ws = "open"]
  /\ fs' = WriteFile(fs, req[r].audioPath, r, 0)
  /\ UNCHANGED <<now, envKey, harness, unlinkMayThrow>>

\* writeStream 'error' (the open or a write fails): reject
WsError(r) ==
  /\ req[r].ws \in {"opening", "open"}
  /\ IF req[r].pc = "downloading"
       THEN Fail(r, [req[r] EXCEPT !.ws = "errored"], fs, <<"write failed">>)
       ELSE /\ req' = [req EXCEPT ![r].ws = "errored"]
            /\ fs' = fs
  /\ UNCHANGED <<now, envKey, harness, unlinkMayThrow>>

\* stream.stream 'error' (the download fails): reject; the write stream is
\* neither ended nor destroyed
SrcError(r) ==
  /\ req[r].pc = "downloading"
  /\ Fail(r, req[r], fs, <<"download failed">>)
  /\ UNCHANGED <<now, envKey, harness, unlinkMayThrow>>

\* a mutant: the conversion started without awaiting the download
WsFinishUnawaited(r) ==
  /\ req[r].pc = "downloading"
  /\ req' = [req EXCEPT ![r] =
               StartConvert(req[r], req[r].audioPath, req[r].convertedPath)]
  /\ fs' = fs
  /\ UNCHANGED <<now, envKey, harness, unlinkMayThrow>>

\* writeStream 'finish': the download is on disk, resolve; the handler goes
\* on with convertVideoToAudio(audioPath, convertedPath)
WsFinish(r) ==
  /\ req[r].pc = "downloading"
  /\ req[r].ws = "open"
  /\ req' = [req EXCEPT ![r] =
               StartConvert([req[r] EXCEPT !.ws = "finished"],
                            req[r].audioPath, req[r].convertedPath)]
  /\ fs' = IF Exists(fs, req[r].audioPath) /\ fs[req[r].audioPath].owner = r
             THEN WriteFile(fs, req[r].audioPath, r, 1) ELSE fs
  /\ UNCHANGED <<now, envKey, harness, unlinkMayThrow>>

(***************************************************************************)
(* POST /api/transcribe-file.                                              *)
(***************************************************************************)
\* the extensions of the model's file names
ExtensionTokens ==
  {".mp4", ".MP4", ".wav", ".WAV", ".flac", ".mp3", ".txt", ".TXT"}

\* path.extname: the last token when it is an extension
ExtName(name) ==
  IF Len(name) > 0 /\ name[Len(name)] \in ExtensionTokens
    THEN name[Len(name)] ELSE ""

\* path.basename(name, ext)
BaseOf(name) == IF ExtName(name) = "" THEN name ELSE SubSeq(name, 1, Len(name) - 1)

\* String.prototype.toLowerCase on an extension
ToLowerCase(ext) ==
  IF ext = ".MP4" THEN ".mp4"
  ELSE IF ext = ".WAV" THEN ".wav"
  ELSE IF ext = ".TXT" THEN ".txt"
  ELSE ext

AllowedExtensions ==
  {".mp4", ".avi", ".mov", ".mkv", ".webm", ".mp3", ".wav", ".m4a", ".aac", ".flac"}

\* a mutant: the extension compared as written
validateMediaFileCaseSensitive(fsys, filePath, originalName) ==
  IF ~Exists(fsys, filePath) THEN <<"Arquivo não encontrado">>
  ELSE IF fsys[filePath].size = 0 THEN <<"Arquivo está vazio">>
  ELSE IF ExtName(originalName) \notin AllowedExtensions
    THEN <<"Formato não suportado: ", ExtName(originalName),
           ". Formatos aceitos: ", ".mp4, .avi, .mov, .mkv, .webm, .mp3, .wav, .m4a, .aac, .flac">>
  ELSE <<>>

\* validateMediaFile: <<>> when the file is accepted, else the rejection's message
validateMediaFile(fsys, filePath, originalName) ==
  IF ~Exists(fsys, filePath) THEN <<"Arquivo não encontrado">>
  ELSE IF fsys[filePath].size = 0 THEN <<"Arquivo está vazio">>
  ELSE IF ToLowerCase(ExtName(originalName)) \notin AllowedExtensions
    THEN <<"Formato não suportado: ", ToLowerCase(ExtName(originalName)),
           ". Formatos aceitos: ", ".mp4, .avi, .mov, .mkv, .webm, .mp3, .wav, .m4a, .aac, .flac">>
  ELSE <<>>

\* multer's filename: `${Date.now()}-${file.originalname}`, under uploads/
UploadPath(t, originalName) == <<"uploads/", MsToString(t), "-">> \o originalName

\* a mutant: an .mp3 target asked of the conversion
ConvertedPathMp3(filePath) == BaseOf(filePath) \o <<"_converted", ".mp3">>

\* path.join('uploads', `${baseName}_converted.wav`)
ConvertedPath(filePath) == BaseOf(filePath) \o <<"_converted", ".wav">>

\* multer starts to store the uploaded file under its generated name
UploadBegin(r) ==
  /\ MayStart(r)
  /\ req[r].pc = "idle"
  /\ \E name \in NamesOf(r) :
       /\ req' = [req EXCEPT ![r].pc = "receiving", ![r].route = "upload",
                             ![r].file = [path |-> UploadPath(now, name),
                                          originalname |-> name]]
       /\ fs' = WriteFile(fs, UploadPath(now, name), r, 0)
  /\ UNCHANGED <<now, envKey, harness, unlinkMayThrow>>

\* a request without a file part: 400 at once
UploadNoFile(r) ==
  /\ MayStart(r)
  /\ MayLackFile(r)
  /\ req[r].pc = "idle"
  /\ Finish(r, [req[r] EXCEPT !.route = "upload"], fs,
            Json400(<<"Nenhum arquivo enviado">>))
  /\ UNCHANGED <<now, envKey, harness, unlinkMayThrow>>

\* the upload is stored and the handler runs: validation, then
\* convertVideoToAudio(req.file.path, convertedPath)
UploadComplete(r) ==
  /\ req[r].pc = "receiving"
  /\ \E sz \in 0..1 :
       LET path == req[r].file.path
           fsys == IF Exists(fs, path) /\ fs[path].owner = r
                     THEN WriteFile(fs, path, r, sz) ELSE fs
           verdict == validateMediaFile(fsys, path, req[r].file.originalname) IN
       IF verdict # <<>>
         THEN Finish(r, req[r], fsys, Json400(<<"Arquivo inválido: ">> \o verdict))
         ELSE /\ req' = [req EXCEPT ![r] =
                           StartConvert([req[r] EXCEPT !.convertedPath = ConvertedPath(path)],
                                        path, ConvertedPath(path))]
              /\ fs' = fsys
  /\ UNCHANGED <<now, envKey, harness, unlinkMayThrow>>

(***************************************************************************)
(* The clock and the specifications.                                       *)
(***************************************************************************)
\* a millisecond passes
Tick ==
  /\ harness \in {"server", "single"}
  /\ now < MaxClock
  /\ now' = now + 1
  /\ UNCHANGED <<req, fs, envKey, harness, unlinkMayThrow>>

\* the server with concurrent requests
Init ==
  /\ harness = "server"
  /\ req = [r \in Requests |-> IdleReq]
  /\ fs = <<>>
  /\ now = 0
  /\ envKey \in EnvValues
  /\ unlinkMayThrow = TRUE

RequestStep(r) ==
  \/ StartYoutube(r) \/ ValidateDone(r) \/ StreamDone(r)
  \/ WsOpen(r) \/ WsError(r) \/ SrcError(r) \/ WsFinish(r)
  \/ UploadBegin(r) \/ UploadNoFile(r) \/ UploadComplete(r)
  \/ ConvOpen(r) \/ ConvEnd(r) \/ ConvError(r)
  \/ UploadResp(r) \/ SubmitResp(r) \/ PollResp(r) \/ DelayDone(r)

Next == Tick \/ \E r \in Requests : RequestStep(r)

Spec == Init /\ [][Next]_vars

\* the server handling one request alone
InitOne ==
  /\ harness = "single"
  /\ req = [r \in Requests |-> IdleReq]
  /\ fs = <<>>
  /\ now = 0
  /\ envKey \in EnvValues
  /\ unlinkMayThrow = TRUE

SpecOne == InitOne /\ [][Next]_vars

\* one request alone, on a storage where unlinkSync never throws
InitReliable ==
  /\ harness = "single"
  /\ req = [r \in Requests |-> IdleReq]
  /\ fs = <<>>
  /\ now = 0
  /\ envKey \in EnvValues
  /\ unlinkMayThrow = FALSE

SpecReliable == InitReliable /\ [][Next]_vars

\* two concurrent requests, on a storage where unlinkSync never throws
InitPair ==
  /\ harness = "server"
  /\ req = [r \in Requests |-> IdleReq]
  /\ fs = <<>>
  /\ now = 0
  /\ envKey \in EnvValues
  /\ unlinkMayThrow = FALSE

SpecPair == InitPair /\ [][Next]_vars

\* the two server variants: a request handled by src/server.js and, once it
\* is answered, the same request handled by src/unnamed/part_000 (the clock
\* advances only between the two reads of Date.now() of a handler)
InitVariants ==
  /\ harness = "variants"
  /\ req = [r \in Requests |-> IdleReq]
  /\ fs = <<>>
  /\ now = 0
  /\ envKey \in EnvValues
  /\ unlinkMayThrow = FALSE

NextVariants == \E r \in Requests : RequestStep(r) \/ StartYoutubePart000(r)

SpecVariants == InitVariants /\ [][NextVariants]_vars

\* every event of the event loop that is ready is eventually handled: the
\* vendor and the encoder answer, timers fire
FairSpecOne == SpecOne /\ WF_vars(Tick) /\ \A r \in Requests : WF_vars(RequestStep(r))

\* convertVideoToAudio called directly, with any output path: a name, then
\* name parts and extensions, then an extension ("rips.mp3/track.mp3")
NameTokens == {"rips", "/track"}

ExtTokens == {".mp3", ".wav", ".ogg"}

ConvPaths ==
  {p \in UNION {[1..k -> NameTokens \cup ExtTokens] : k \in 2..MaxPathLen} :
     p[1] \in NameTokens /\ p[Len(p)] \in ExtTokens}

InitNormalize ==
  /\ harness = "normalize"
  /\ \E outputPath \in ConvPaths :
       req = [r \in Requests |->
                IF r = "r1"
                  THEN StartConvert([IdleReq EXCEPT !.convertedPath = outputPath],
                                    <<"in", ".mp4">>, outputPath)
                  ELSE IdleReq]
  /\ \E present \in BOOLEAN :
       fs = IF present THEN WriteFile(<<>>, <<"in", ".mp4">>, "r1", 1) ELSE <<>>
  /\ now = 0
  /\ envKey = Unset
  /\ unlinkMayThrow = TRUE

NextNormalize == \E r \in Requests : ConvOpen(r) \/ ConvEnd(r) \/ ConvError(r)

SpecNormalize == InitNormalize /\ [][NextNormalize]_vars

\* validateMediaFile(filePath, originalName) called on any stored file: the
\* original names, with and without an extension, in either case
ValidatedNames ==
  {<<b>> : b \in {"talk", "notes"}}
    \cup {<<b, e>> : b \in {"talk", "notes"},
                     e \in {".mp4", ".MP4", ".wav", ".WAV", ".flac", ".txt", ".TXT"}}

\* the sizes of the stored file, in bytes
FileSizes == {0, 1, 2}

InitValidate ==
  /\ harness = "validate"
  /\ \E name \in ValidatedNames, present \in BOOLEAN, sz \in FileSizes :
       /\ req = [r \in Requests |->
                   IF r = "r1"
                     THEN [IdleReq EXCEPT
                             !.pc = "receiving", !.route = "upload",
                             !.file = [path |-> UploadPath(0, name),
                                       originalname |-> name]]
                     ELSE IdleReq]
       /\ fs = IF present THEN WriteFile(<<>>, UploadPath(0, name), "r1", sz) ELSE <<>>
  /\ now = 0
  /\ envKey = Unset
  /\ unlinkMayThrow = FALSE

\* the promise of validateMediaFile settles: resolved, or rejected with a
\* message
ValidateCall(r) ==
  /\ harness = "validate"
  /\ req[r].pc = "receiving"
  /\ LET verdict == validateMediaFile(fs, req[r].file.path, req[r].file.originalname) IN
       req' = [req EXCEPT ![r].pc = IF verdict = <<>> THEN "accepted" ELSE "refused",
                          ![r].thrown = verdict]
  /\ UNCHANGED <<fs, now, envKey, harness, unlinkMayThrow>>

NextValidate == \E r \in Requests : ValidateCall(r)

SpecValidate == InitValidate /\ [][NextValidate]_vars

\* options.language of a direct call of transcribeAudio: absent, 'auto', or
\* a language code
OptionLanguages == {"", "auto", "en", "pt"}

\* transcribeAudio(convertedPath, options) called with any options, on the
\* converted file of an upload whose conversion is about to end
InitTranscribe ==
  /\ harness = "transcribe"
  /\ \E o \in OptionLanguages :
       req = [r \in Requests |->
                IF r = "r1"
                  THEN StartConvert(
                         [IdleReq EXCEPT
                            !.route = "upload",
                            !.file = [path |-> UploadPath(0, <<"talk", ".mp4">>),
                                      originalname |-> <<"talk", ".mp4">>],
                            !.convertedPath =
                              ConvertedPath(UploadPath(0, <<"talk", ".mp4">>)),
                            !.options = o],
                         UploadPath(0, <<"talk", ".mp4">>),
                         ConvertedPath(UploadPath(0, <<"talk", ".mp4">>)))
                  ELSE IdleReq]
  /\ fs = WriteFile(<<>>, UploadPath(0, <<"talk", ".mp4">>), "r1", 1)
  /\ now = 0
  /\ envKey \in EnvValues
  /\ unlinkMayThrow = FALSE

NextTranscribe ==
  \E r \in Requests :
    \/ ConvOpen(r) \/ ConvEnd(r)
    \/ UploadResp(r) \/ SubmitResp(r) \/ PollResp(r) \/ DelayDone(r)

SpecTranscribe == InitTranscribe /\ [][NextTranscribe]_vars


(***************************************************************************)
(* Vocabulary of the properties.                                           *)
(***************************************************************************)
InFlight(r) == req[r].pc \notin {"idle", "done"}

\* the artifact paths a request has generated
Artifacts(r) == {RawPath(req[r]), req[r].convertedPath} \ {NoPath}

\* the files on storage a request's stages wrote
FilesOf(r) == {p \in DOMAIN fs : fs[p].owner = r}

InLoop(rec) == rec.pc \in {"polling", "delaying"}

Contains(s, token) == \E i \in 1..Len(s) : s[i] = token

\* a path with its extension (the last token) replaced by .wav
WithWavExtension(p) == [p EXCEPT ![Len(p)] = ".wav"]

(***************************************************************************)
(* C1: once a handler has finished, no file created for its request (raw   *)
(* or converted) exists on storage.                                        *)
(***************************************************************************)
C1_NoArtifactLeft == \A r \in Requests : req[r].pc = "done" => FilesOf(r) = {}

(***************************************************************************)
(* C2: two requests in flight at the same time never share an artifact     *)
(* path.                                                                   *)
(***************************************************************************)
C2_DistinctNames ==
  \A r1, r2 \in Requests :
    (r1 # r2 /\ InFlight(r1) /\ InFlight(r2)) => Artifacts(r1) \cap Artifacts(r2) = {}

(***************************************************************************)
(* C3: every request that leaves Idle eventually reaches Cleanup and Done. *)
(***************************************************************************)
C3_EventuallyDone == \A r \in Requests : (req[r].pc # "idle") ~> (req[r].pc = "done")

(***************************************************************************)
(* C4 as stated: the polling loop is left only on status completed, status *)
(* error or a non-success HTTP status.                                     *)
(***************************************************************************)
C4_ExitsOnlyOnStatus ==
  [][\A r \in Requests :
       (InLoop(req[r]) /\ ~InLoop(req'[r])) =>
          \/ req'[r].lastPoll.kind = "httpfail"
          \/ (req'[r].lastPoll.kind = "ok"
              /\ req'[r].lastPoll.status \in {"completed", "error"})]_vars

(***************************************************************************)
(* C4 amended: the loop has no attempt cap (whatever the number of polls   *)
(* so far, the next delay and the next status request are taken), a        *)
(* request in the loop has sent no response and has not run cleanup, and   *)
(* the loop is left only on status completed, status error, a non-success  *)
(* HTTP status, or a status request that itself fails (fetch or the body's *)
(* parsing rejects); a non-terminal answer with a success HTTP status      *)
(* keeps the request in the loop.                                          *)
(***************************************************************************)
C4_LoopUnbounded ==
  /\ [](\A r \in Requests :
          /\ InLoop(req[r]) => req[r].resp = NoResp
          /\ req[r].pc = "polling" => ENABLED PollResp(r)
          /\ req[r].pc = "delaying" =>
               /\ ENABLED DelayDone(r)
               /\ req[r].lastPoll.kind = "ok"
               /\ req[r].lastPoll.status \notin {"completed", "error"})
  /\ [][\A r \in Requests :
          (InLoop(req[r]) /\ ~InLoop(req'[r])) =>
             /\ req'[r].pc = "done"
             /\ \/ req'[r].lastPoll.kind \in {"httpfail", "throws"}
                \/ (req'[r].lastPoll.kind = "ok"
                    /\ req'[r].lastPoll.status \in {"completed", "error"})]_vars

\* a request still polling after more polls than the model counts
C4_Witness ==
  \E r \in Requests :
    req[r].pc = "polling" /\ req[r].reqs = PollCap /\ req[r].nonterm = PollCap

(***************************************************************************)
(* C5: one call of convertVideoToAudio makes at most two conversion        *)
(* attempts, whatever the output path.                                     *)
(***************************************************************************)
C5_AtMostTwoAttempts == \A r \in Requests : Len(req[r].tried) <= 2

(***************************************************************************)
(* C6: for every output path that does not end in .wav, a failed first     *)
(* attempt is retried on the path with the extension replaced by .wav; the *)
(* call is rejected only after that WAV attempt.                           *)
(***************************************************************************)
C6_CompressedFallsBack ==
  \A r \in Requests :
    (~IsWav(req[r].convertedPath) /\ Len(req[r].tried) >= 1) =>
       /\ req[r].pc = "rejected" => Len(req[r].tried) >= 2
       /\ Len(req[r].tried) >= 2 =>
            req[r].tried[2] = WithWavExtension(req[r].convertedPath)

(***************************************************************************)
(* C7: a call with an output path ending in .mp3 whose MP3 attempt fails   *)
(* and whose WAV attempt succeeds resolves with the requested path with    *)
(* its .mp3 extension replaced by .wav, the path the WAV attempt wrote.    *)
(***************************************************************************)
C7_ResolvesWithWavPath ==
  \A r \in Requests :
    (EndsWith(req[r].convertedPath, ".mp3") /\ req[r].pc = "resolved"
       /\ Len(req[r].tried) >= 2 /\ IsWav(req[r].convResult)) =>
       /\ req[r].convResult = WithWavExtension(req[r].convertedPath)
       /\ req[r].convResult = req[r].tried[Len(req[r].tried)]

(***************************************************************************)
(* C8: a call with an output path ending in .wav makes one attempt and no  *)
(* fallback: it resolves with that path, or is rejected with the error of  *)
(* that first attempt.                                                     *)
(***************************************************************************)
C8_WavNeverFallsBack ==
  \A r \in Requests :
    (IsWav(req[r].convertedPath) /\ Len(req[r].tried) >= 1) =>
       /\ req[r].tried = <<req[r].convertedPath>>
       /\ req[r].pc = "resolved" =>
            /\ req[r].convResult = req[r].convertedPath
            /\ Exists(fs, req[r].convertedPath)
       /\ req[r].pc = "rejected" => req[r].convError = 1

\* a rejected call whose .wav path also holds '.mp3'
C8_Witness ==
  \E r \in Requests :
    /\ req[r].pc = "rejected"
    /\ IsWav(req[r].convertedPath)
    /\ Contains(req[r].convertedPath, ".mp3")

(***************************************************************************)
(* C9: after n non-terminal answers and then completed, the loop has sent  *)
(* n+1 status requests and waited the 3 s delay n times, once between two  *)
(* consecutive requests (none before the first, none after the last), and  *)
(* the result is the payload of the last answer.                           *)
(***************************************************************************)
C9_PollCount ==
  \A r \in Requests :
    req[r].reqs < PollCap =>
      /\ req[r].pc = "polling" =>
           /\ req[r].nonterm = req[r].reqs - 1
           /\ req[r].waitedMs = PollIntervalMs * (req[r].reqs - 1)
      /\ req[r].pc = "delaying" =>
           /\ req[r].nonterm = req[r].reqs
           /\ req[r].waitedMs = PollIntervalMs * (req[r].reqs - 1)
      /\ (req[r].pc = "done" /\ req[r].lastPoll.kind = "ok"
            /\ req[r].lastPoll.status = "completed") =>
           /\ req[r].reqs = req[r].nonterm + 1
           /\ req[r].waitedMs = PollIntervalMs * req[r].nonterm
           /\ req[r].resp.status = 200
           /\ req[r].resp.transcription = req[r].lastPoll.text
           /\ req[r].resp.confidence = req[r].lastPoll.confidence
           /\ req[r].resp.language_detected = req[r].lastPoll.language_code

\* processing twice, then completed
C9_Witness ==
  \E r \in Requests :
    /\ req[r].pc = "done"
    /\ req[r].lastPoll.status = "completed"
    /\ req[r].nonterm = 2
    /\ req[r].reqs = 3
    /\ req[r].waitedMs = 6000

(***************************************************************************)
(* C10: a poll answered with status error fails the wait with a message    *)
(* that contains the vendor's error message, no further status request is  *)
(* sent, and the caller gets a 500 response whose message embeds it.       *)
(***************************************************************************)
C10_JobErrorReachesCaller ==
  \A r \in Requests :
    (req[r].lastPoll.kind = "ok" /\ req[r].lastPoll.status = "error") =>
       /\ req[r].pc = "done"
       /\ req[r].resp.status = 500
       /\ req[r].resp.error[1] = ErrorPrefix(req[r])
       /\ Contains(req[r].resp.error, req[r].lastPoll.error)
       /\ req[r].resp.transcription = <<>>
       /\ req[r].reqs < PollCap => req[r].reqs = req[r].nonterm + 1

\* the job fails on the second poll
C10_Witness ==
  \E r \in Requests :
    /\ req[r].lastPoll.status = "error"
    /\ req[r].lastPoll.error = "bad audio"
    /\ req[r].nonterm = 1
    /\ req[r].resp.status = 500

(***************************************************************************)
(* C11: within one request the stages run strictly in sequence: the        *)
(* conversion starts only once the download has finished, the vendor       *)
(* upload only once the conversion has resolved, the job submission only   *)
(* once the upload has returned, the first status request only once the    *)
(* submission has returned; a request is in one stage at a time and enters *)
(* a stage only from the stage before it.                                  *)
(***************************************************************************)
C11_StagesInSequence ==
  /\ [](\A r \in Requests :
          /\ (req[r].route = "youtube" /\ req[r].tried # <<>>) =>
               req[r].ws = "finished"
          /\ req[r].uploads > 0 =>
               (req[r].convResult # NoPath /\ req[r].uploaded = req[r].convResult)
          /\ req[r].submits > 0 => req[r].audioUrl # <<>>
          /\ req[r].reqs > 0 => (req[r].transcriptId # <<>> /\ req[r].body = NoBody)
          /\ req[r].pc \in {"validating", "streaming", "downloading", "receiving"} =>
               (req[r].tried = <<>> /\ req[r].uploads = 0)
          /\ req[r].pc = "converting" => (req[r].convResult = NoPath /\ req[r].uploads = 0)
          /\ req[r].pc = "uploading" => (req[r].audioUrl = <<>> /\ req[r].submits = 0)
          /\ req[r].pc = "submitting" => (req[r].transcriptId = <<>> /\ req[r].reqs = 0))
  /\ [][\A r \in Requests :
          /\ (req'[r].pc = "converting" /\ req[r].pc # "converting") =>
               req[r].pc \in {"downloading", "receiving"}
          /\ (req'[r].pc = "uploading" /\ req[r].pc # "uploading") =>
               req[r].pc = "converting"
          /\ (req'[r].pc = "submitting" /\ req[r].pc # "submitting") =>
               req[r].pc = "uploading"
          /\ (req'[r].pc = "polling" /\ req[r].pc # "polling") =>
               req[r].pc \in {"submitting", "delaying"}]_vars

\* a YouTube request that has gone through every stage and sent its first
\* status request
C11_Witness ==
  \E r \in Requests :
    /\ req[r].route = "youtube"
    /\ req[r].pc = "polling"
    /\ req[r].reqs = 1

(***************************************************************************)
(* C12: a stage that fails ends the request: the caller gets one 500       *)
(* response that carries an error message and no transcription field, the  *)
(* failing step starts no stage, and no stage of the request starts after  *)
(* it. A failed acquisition is followed by no conversion and no vendor     *)
(* call, a failed upload by no submission and no status request.           *)
(***************************************************************************)
C12_FailureAborts ==
  /\ [](\A r \in Requests :
          /\ req[r].thrown # <<>> =>
               /\ req[r].pc = "done"
               /\ req[r].resp.status = 500
               /\ req[r].resp.error = <<ErrorPrefix(req[r])>> \o req[r].thrown
          /\ req[r].resp.status \in {400, 500} =>
               /\ req[r].resp.transcription = <<>>
               /\ req[r].resp.confidence = 0
               /\ req[r].resp.language_detected = ""
          /\ (req[r].resp.status = 500 /\ req[r].tried = <<>>) =>
               (req[r].uploads = 0 /\ req[r].submits = 0 /\ req[r].reqs = 0)
          /\ (req[r].resp.status = 500 /\ req[r].convResult = NoPath) =>
               (req[r].uploads = 0 /\ req[r].submits = 0 /\ req[r].reqs = 0)
          /\ (req[r].resp.status = 500 /\ req[r].audioUrl = <<>>) =>
               (req[r].submits = 0 /\ req[r].reqs = 0)
          /\ (req[r].resp.status = 500 /\ req[r].transcriptId = <<>>) =>
               req[r].reqs = 0)
  /\ [][\A r \in Requests :
          /\ req[r].resp # NoResp => req'[r].resp = req[r].resp
          /\ (req'[r].thrown # <<>>) =>
               /\ req'[r].tried = req[r].tried
               /\ req'[r].uploads = req[r].uploads
               /\ req'[r].submits = req[r].submits
               /\ req'[r].reqs = req[r].reqs]_vars

\* the vendor upload of a request has failed
C12_Witness ==
  \E r \in Requests :
    /\ req[r].pc = "done"
    /\ req[r].resp.status = 500
    /\ req[r].thrown = <<"Erro no upload: ", "401", " - ", "unauthorized">>
    /\ req[r].uploads = 1
    /\ req[r].submits = 0

(***************************************************************************)
(* C13: a deletion that fails during cleanup is not escalated: nothing is  *)
(* raised out of the handler, the response is the one chosen before the    *)
(* cleanup (the result, or the 500 carrying the pipeline's own error), and *)
(* the deletion of the request's other artifact is still attempted, so a   *)
(* raw file that could not be deleted does not keep the converted file on  *)
(* storage.                                                                *)
(***************************************************************************)
C13_CleanupNeverEscalates ==
  /\ [](\A r \in Requests :
          req[r].pc = "done" =>
            /\ ~req[r].raised
            /\ req[r].cleaned = <<RawPath(req[r]), req[r].convertedPath>>
            /\ req[r].resp.status \in {200, 400, 500}
            /\ req[r].resp.status = 500 =>
                 req[r].resp.error = <<ErrorPrefix(req[r])>> \o req[r].thrown
            /\ req[r].resp.status = 200 => req[r].thrown = <<>>)
  /\ [][\A r \in Requests :
          req[r].pc = "done" =>
               /\ req'[r].pc = "done"
               /\ req'[r].resp = req[r].resp
               /\ req'[r].raised = req[r].raised]_vars

\* an upload answered with its transcription whose stored file could not be
\* deleted, and whose converted file has been deleted all the same
C13_Witness ==
  \E r \in Requests :
    /\ req[r].route = "upload"
    /\ req[r].pc = "done"
    /\ req[r].resp.status = 200
    /\ Exists(fs, req[r].file.path)
    /\ req[r].convResult = req[r].convertedPath
    /\ ~Exists(fs, req[r].convertedPath)

(***************************************************************************)
(* C14: when the credential variable is absent, empty or the placeholder,  *)
(* a request makes no upload, no job submission and no status request, and *)
(* once its conversion has resolved it is answered with the placeholder    *)
(* result: confidence 0.95, language_code the options' language when one   *)
(* was given and 'pt' otherwise.                                           *)
(***************************************************************************)
C14_PlaceholderWithoutCredential ==
  envKey \in {Unset, "", Placeholder} =>
    \A r \in Requests :
      /\ req[r].uploads = 0 /\ req[r].submits = 0 /\ req[r].reqs = 0
      /\ req[r].audioUrl = <<>> /\ req[r].transcriptId = <<>>
      /\ req[r].convResult # NoPath =>
           /\ req[r].pc = "done"
           /\ req[r].resp.status = 200
           /\ req[r].resp.confidence = 95
           /\ req[r].resp.language_detected =
                IF req[r].options # "" THEN req[r].options ELSE "pt"
           /\ Len(req[r].resp.transcription) > Len(Basename(req[r].convertedPath))
           /\ SubSeq(req[r].resp.transcription, 1,
                     1 + Len(Basename(req[r].convertedPath))) =
                <<"Transcrição simulada usando AssemblyAI para o arquivo: ">>
                  \o Basename(req[r].convertedPath)

\* a request without language on a server whose credential variable is empty
C14_Witness ==
  \E r \in Requests :
    /\ envKey = ""
    /\ req[r].pc = "done"
    /\ req[r].convResult # NoPath
    /\ req[r].options = ""
    /\ req[r].resp.language_detected = "pt"

(***************************************************************************)
(* C15 as stated: the job-submission request has punctuation and text      *)
(* formatting enabled, language auto-detection enabled exactly when        *)
(* options.language is absent or 'auto', and for a concrete language code  *)
(* auto-detection explicitly disabled (language_detection: false) and      *)
(* language_code equal to the code.                                        *)
(***************************************************************************)
C15_DetectionExplicitlyDisabled ==
  \A r \in Requests :
    req[r].pc = "submitting" =>
      /\ req[r].body.punctuate = "true"
      /\ req[r].body.format_text = "true"
      /\ req[r].body.language_detection = "true" <=> req[r].options \in {"", "auto"}
      /\ req[r].options \notin {"", "auto"} =>
           /\ req[r].body.language_detection = "false"
           /\ req[r].body.language_code = req[r].options

(***************************************************************************)
(* C15 amended: the job-submission request has punctuation and text        *)
(* formatting enabled and refers to the uploaded audio; with no language   *)
(* or 'auto' in the options language_detection is true and no              *)
(* language_code is sent; with a concrete language code the                *)
(* language_detection key is deleted from the request (it is neither true  *)
(* nor false) and language_code equals the code.                           *)
(***************************************************************************)
C15_DetectionKeyDeleted ==
  \A r \in Requests :
    req[r].pc = "submitting" =>
      /\ req[r].body.audio_url = req[r].audioUrl
      /\ req[r].body.punctuate = "true"
      /\ req[r].body.format_text = "true"
      /\ req[r].options \in {"", "auto"} =>
           /\ req[r].body.language_detection = "true"
           /\ req[r].body.language_code = Absent
      /\ req[r].options \notin {"", "auto"} =>
           /\ req[r].body.language_detection = Absent
           /\ req[r].body.language_code = req[r].options

\* a submission in flight for a call with the language 'pt'
C15_Witness ==
  \E r \in Requests :
    /\ req[r].pc = "submitting"
    /\ req[r].options = "pt"
    /\ req[r].body.language_code = "pt"
    /\ req[r].body.language_detection = Absent

(***************************************************************************)
(* C16: a request makes at most one vendor upload and at most one job      *)
(* submission; the upload sends the request's converted artifact, the      *)
(* submitted job refers to the audio URL that upload returned, and every   *)
(* status request uses the job id that submission returned.                *)
(***************************************************************************)
C16_OneUploadOneJob ==
  \A r \in Requests :
    /\ req[r].uploads <= 1
    /\ req[r].submits <= req[r].uploads
    /\ req[r].uploads = 1 =>
         (req[r].uploaded = req[r].convertedPath /\ req[r].uploaded = req[r].convResult)
    /\ req[r].submits = 1 => req[r].audioUrl = UploadUrl(r)
    /\ req[r].pc = "submitting" => req[r].body.audio_url = UploadUrl(r)
    /\ req[r].reqs > 0 =>
         /\ req[r].submits = 1
         /\ req[r].transcriptId = JobId(r)
         /\ req[r].polledId = JobId(r)

\* the second status request of a request
C16_Witness ==
  \E r \in Requests :
    /\ req[r].pc = "polling"
    /\ req[r].reqs = 2
    /\ req[r].polledId = JobId(r)

(***************************************************************************)
(* C17: no request waits on another. Whatever the other requests are doing *)
(* (stalled in a download, a conversion, or polling a job that stays in    *)
(* processing), the next event of a request's own stage can be handled: a  *)
(* new request can be taken, and a request in flight can take the step     *)
(* that moves it on. A step of one request changes no other request's      *)
(* position or data, and a finished request stays finished.                *)
(***************************************************************************)
C17_NoRequestWaitsOnAnother ==
  /\ [](\A r \in Requests :
          /\ req[r].pc = "idle" =>
               (ENABLED StartYoutube(r) /\ ENABLED UploadBegin(r) /\ ENABLED UploadNoFile(r))
          /\ req[r].pc = "validating" => ENABLED ValidateDone(r)
          /\ req[r].pc = "streaming" => ENABLED StreamDone(r)
          /\ req[r].pc = "downloading" =>
               /\ ENABLED SrcError(r)
               /\ req[r].ws = "opening" => ENABLED WsOpen(r)
               /\ req[r].ws = "open" => ENABLED WsFinish(r)
          /\ req[r].pc = "receiving" => ENABLED UploadComplete(r)
          /\ req[r].pc = "converting" => (ENABLED ConvEnd(r) \/ ENABLED ConvError(r))
          /\ req[r].pc = "uploading" => ENABLED UploadResp(r)
          /\ req[r].pc = "submitting" => ENABLED SubmitResp(r)
          /\ req[r].pc = "polling" => ENABLED PollResp(r)
          /\ req[r].pc = "delaying" => ENABLED DelayDone(r))
  /\ [][\A r \in Requests :
          /\ req'[r] # req[r] => \A q \in Requests \ {r} : req'[q] = req[q]
          /\ req[r].pc = "done" => req'[r].pc = "done"]_vars

\* a request answered with its transcription after polling, while the other
\* request is still polling beyond the number of polls the model counts
C17_Witness ==
  \E r, q \in Requests :
    /\ r # q
    /\ InLoop(req[q])
    /\ req[q].nonterm = PollCap
    /\ req[r].pc = "done"
    /\ req[r].resp.status = 200
    /\ req[r].nonterm >= 1

(***************************************************************************)
(* C18: on the YouTube route a url that fails validation (a string that is *)
(* no video URL, or no url at all) is answered with 400, and the request   *)
(* starts no download, creates no file, and makes no conversion and no     *)
(* vendor call.                                                            *)
(***************************************************************************)
C18_InvalidUrlIs400 ==
  \A r \in Requests :
    (req[r].route = "youtube" /\ req[r].pc # "validating"
       /\ (req[r].url = NoUrl \/ PlayValidate(req[r].url) # "yt_video")) =>
       /\ req[r].pc = "done"
       /\ req[r].resp.status = 400
       /\ req[r].ws = "none"
       /\ FilesOf(r) = {}
       /\ req[r].tried = <<>>
       /\ req[r].uploads = 0 /\ req[r].submits = 0 /\ req[r].reqs = 0

\* the original names whose extension, whatever its case, is in the allow-list
AcceptedNames ==
  {<<b, e>> : b \in {"talk", "notes"}, e \in {".mp4", ".MP4", ".wav", ".WAV", ".flac"}}

(***************************************************************************)
(* C19: validateMediaFile accepts a file exactly when it exists, is not    *)
(* empty and its original name has an extension of the allow-list, in      *)
(* either case; an empty file is rejected as empty, and a file with        *)
(* another extension is rejected with a message that carries that          *)
(* extension (in lower case).                                              *)
(***************************************************************************)
C19_ValidateMediaFile ==
  \A r \in Requests :
    req[r].pc \in {"accepted", "refused"} =>
      LET path == req[r].file.path
          name == req[r].file.originalname IN
      /\ req[r].pc = "accepted" <=>
           (Exists(fs, path) /\ fs[path].size > 0 /\ name \in AcceptedNames)
      /\ req[r].pc = "accepted" <=> req[r].thrown = <<>>
      /\ ~Exists(fs, path) => req[r].thrown = <<"Arquivo não encontrado">>
      /\ (Exists(fs, path) /\ fs[path].size = 0) =>
           req[r].thrown = <<"Arquivo está vazio">>
      /\ (Exists(fs, path) /\ fs[path].size > 0 /\ name \notin AcceptedNames) =>
           /\ req[r].thrown[1] = "Formato não suportado: "
           /\ \/ Len(name) = 1 /\ req[r].thrown[2] = ""
              \/ Len(name) = 2 /\ name[2] \in {".txt", ".TXT"} /\ req[r].thrown[2] = ".txt"

\* a stored, non-empty file with an upper-case extension, accepted
C19_Witness ==
  \E r \in Requests :
    /\ req[r].pc = "accepted"
    /\ req[r].file.originalname = <<"talk", ".MP4">>
    /\ Exists(fs, req[r].file.path)

(***************************************************************************)
(* C20: on the upload route a request without file, or whose file fails    *)
(* validation, is answered with 400 and starts no conversion and no vendor *)
(* call; a request whose conversion, upload, submission or polling fails   *)
(* is answered with 500 and a message that embeds the error's message. No  *)
(* 400 follows a started pipeline and no 500 a failed validation.          *)
(***************************************************************************)
C20_UploadStatusCodes ==
  \A r \in Requests :
    (req[r].route = "upload" /\ req[r].pc = "done") =>
      /\ req[r].resp.status \in {200, 400, 500}
      /\ req[r].resp.status = 400 <=> req[r].tried = <<>>
      /\ req[r].resp.status = 400 =>
           /\ req[r].thrown = <<>>
           /\ req[r].uploads = 0 /\ req[r].submits = 0 /\ req[r].reqs = 0
           /\ \/ req[r].file = NoFile /\ req[r].resp.error = <<"Nenhum arquivo enviado">>
              \/ req[r].file # NoFile /\ req[r].resp.error[1] = "Arquivo inválido: "
      /\ req[r].resp.status = 500 <=> req[r].thrown # <<>>
      /\ req[r].resp.status = 500 =>
           /\ req[r].file.originalname \in AcceptedNames
           /\ req[r].resp.error[1] = "Erro ao processar arquivo: "
           /\ SubSeq(req[r].resp.error, 2, Len(req[r].resp.error)) = req[r].thrown

\* an upload whose conversion has failed
C20_Witness ==
  \E r \in Requests :
    /\ req[r].route = "upload"
    /\ req[r].pc = "done"
    /\ req[r].resp.status = 500
    /\ req[r].thrown = <<"ffmpeg exited with code 1">>
    /\ req[r].uploads = 0

\* the text transcribeAudio returned to a request that was answered with 200
TranscribedText(r) ==
  IF req[r].lastPoll.status = "completed" THEN req[r].lastPoll.text
  ELSE IF Variant(r) = "part_000"
    THEN PlaceholderResultPart000(req[r].convertedPath, req[r].options).text
    ELSE PlaceholderResult(req[r].convertedPath, req[r].options).text

(***************************************************************************)
(* C21: under each server variant, a successful request that asked for     *)
(* post-processing (shouldTranslate or shouldFormat) is answered with the  *)
(* shape {originalTranscription, processedTranscription, confidence,       *)
(* language_detected, operations}, translation applied before formatting   *)
(* and originalTranscription equal to the transcribed text; a request that *)
(* asked for none is answered with {transcription, confidence,             *)
(* language_detected}.                                                     *)
(***************************************************************************)
C21_PostProcessedShape ==
  \A r \in Requests :
    (req[r].pc = "done" /\ req[r].resp.status = 200) =>
      LET rec == req[r]
          translated == IF rec.shouldTranslate
                          THEN translateText(TranscribedText(r))
                          ELSE TranscribedText(r) IN
      IF rec.shouldTranslate \/ rec.shouldFormat
        THEN /\ rec.resp.keys = {"originalTranscription", "processedTranscription",
                                 "confidence", "language_detected", "operations"}
             /\ rec.resp.originalTranscription = TranscribedText(r)
             /\ rec.resp.processedTranscription =
                  IF rec.shouldFormat THEN formatText(translated) ELSE translated
             /\ rec.resp.operations = [translated |-> rec.shouldTranslate,
                                       formatted |-> rec.shouldFormat]
        ELSE /\ rec.resp.keys = {"transcription", "confidence", "language_detected"}
             /\ rec.resp.transcription = TranscribedText(r)

(***************************************************************************)
(* C22: with a credential configured, when the vendor's first status       *)
(* response is completed, transcribeAudio returns the text, confidence and *)
(* language_code of that payload, after exactly one upload, one job        *)
(* submission and one status request.                                      *)
(***************************************************************************)
C22_FirstPollCompleted ==
  \A r \in Requests :
    (ASSEMBLYAI_API_KEY # Placeholder /\ req[r].pc = "done"
       /\ req[r].lastPoll.kind = "ok" /\ req[r].lastPoll.status = "completed"
       /\ req[r].nonterm = 0) =>
       /\ req[r].resp.status = 200
       /\ req[r].resp.transcription = req[r].lastPoll.text
       /\ req[r].resp.confidence = req[r].lastPoll.confidence
       /\ req[r].resp.language_detected = req[r].lastPoll.language_code
       /\ req[r].uploads = 1
       /\ req[r].submits = 1
       /\ req[r].reqs = 1

\* a job completed at its first status request
C22_Witness ==
  \E r \in Requests :
    /\ ASSEMBLYAI_API_KEY # Placeholder
    /\ req[r].pc = "done"
    /\ req[r].lastPoll.status = "completed"
    /\ req[r].reqs = 1
    /\ req[r].resp.transcription = <<"hello">>
    /\ req[r].resp.confidence = 90

\* the label of the Error thrown by the vendor call a request failed in
FailedCallLabel(rec) ==
  IF rec.reqs > 0 THEN "Erro ao verificar status: "
  ELSE IF rec.submits > 0 THEN "Erro ao iniciar transcrição: "
  ELSE "Erro no upload: "

(***************************************************************************)
(* C23: a non-success HTTP status from the vendor at the upload, at the    *)
(* job submission or at any status request makes that call fail at once    *)
(* with an Error that carries the status code and the response body; the   *)
(* failed call is not sent again, and a failed status request ends the     *)
(* polling loop.                                                           *)
(***************************************************************************)
C23_HttpFailureFailsAtOnce ==
  /\ [](\A r \in Requests :
          req[r].failedCall.kind = "httpfail" =>
            /\ req[r].pc = "done"
            /\ req[r].thrown = <<FailedCallLabel(req[r]), req[r].failedCall.http,
                                 " - ", req[r].failedCall.body>>
            /\ req[r].uploads = 1
            /\ req[r].submits <= 1
            /\ req[r].reqs > 0 => req[r].lastPoll = req[r].failedCall
            /\ (req[r].reqs > 0 /\ req[r].reqs < PollCap) =>
                  req[r].reqs = req[r].nonterm + 1)
  /\ [][\A r \in Requests :
          req[r].failedCall.kind = "httpfail" =>
                /\ req'[r].uploads = req[r].uploads
                /\ req'[r].submits = req[r].submits
                /\ req'[r].reqs = req[r].reqs
                /\ req'[r].pc = "done"]_vars

\* a status request answered 401 after a non-terminal answer
C23_Witness ==
  \E r \in Requests :
    /\ req[r].failedCall.kind = "httpfail"
    /\ req[r].failedCall.http = "401"
    /\ req[r].reqs = 2
    /\ req[r].nonterm = 1
    /\ req[r].thrown = <<"Erro ao verificar status: ", "401", " - ", "unauthorized">>

(***************************************************************************)
(* C24: every invocation of a transcription route handler that terminates  *)
(* has sent exactly one HTTP response, never none and never two, on every  *)
(* path (validation rejection, stage failure, success with or without      *)
(* post-processing), under either variant; the response is sent before the *)
(* cleanup runs, and nothing is sent after it.                             *)
(***************************************************************************)
C24_ExactlyOneResponse ==
  /\ [](\A r \in Requests :
          /\ req[r].sent <= 1
          /\ req[r].pc = "done" =>
               /\ req[r].sent = 1
               /\ req[r].resp.status \in {200, 400, 500}
               /\ req[r].resp.keys # {}
          /\ req[r].pc # "done" =>
               /\ req[r].sent = 0
               /\ req[r].resp = NoResp
               /\ req[r].cleaned = <<>>)
  /\ [][\A r \in Requests :
          /\ req'[r].cleaned # req[r].cleaned =>
               /\ req[r].sent = 0
               /\ req'[r].sent = 1
               /\ req'[r].resp # NoResp
          /\ req[r].sent = 1 =>
               /\ req'[r].sent = 1
               /\ req'[r].resp = req[r].resp
               /\ req'[r].cleaned = req[r].cleaned]_vars

\* a failed request under src/server.js, and its replay under part_000
\* answered with the processed shape
C24_Witness ==
  /\ req["r1"].pc = "done" /\ req["r1"].resp.status = 500 /\ req["r1"].sent = 1
  /\ req["r2"].pc = "done" /\ req["r2"].resp.status = 200 /\ req["r2"].sent = 1
  /\ "processedTranscription" \in req["r2"].resp.keys
  /\ Len(req["r2"].cleaned) = 2

(***************************************************************************)
(* C25: with several requests in flight, at the moment the transcribe step *)
(* of a request reads its converted audio file (the conversion has         *)
(* resolved and uploadToAssemblyAI calls readFileSync), the file exists    *)
(* and holds the complete output of that request's own conversion: no      *)
(* cleanup and no conversion of another request has deleted or overwritten *)
(* it.                                                                     *)
(***************************************************************************)
C25_ReadsOwnConversion ==
  [][\A r \in Requests :
       (ASSEMBLYAI_API_KEY # Placeholder
          /\ req[r].pc = "converting"
          /\ req[r].convResult = NoPath /\ req'[r].convResult # NoPath) =>
          /\ req'[r].pc = "uploading"
          /\ req'[r].uploaded = req[r].convertedPath
          /\ Exists(fs', req[r].convertedPath)
          /\ fs'[req[r].convertedPath].owner = r
          /\ fs'[req[r].convertedPath].size = 1]_vars

(***************************************************************************)
(* C26: in every route the converted-audio path the handler passes to      *)
(* transcribeAudio, and later to cleanupFile, is the path                  *)
(* convertVideoToAudio resolved with (the file actually written): the      *)
(* handlers ignore the resolved value, and as they always ask for a .wav   *)
(* target the two paths never differ.                                      *)
(***************************************************************************)
C26_ConvertedPathIsResolvedPath ==
  \A r \in Requests :
    /\ req[r].pc = "converting" =>
         /\ req[r].outputPath = req[r].convertedPath
         /\ IsWav(req[r].outputPath)
    /\ req[r].convResult # NoPath =>
         /\ req[r].convResult = req[r].convertedPath
         /\ req[r].tried = <<req[r].convertedPath>>
    /\ req[r].uploads > 0 => req[r].uploaded = req[r].convResult
    /\ (req[r].pc = "done" /\ req[r].convResult # NoPath) =>
         /\ Len(req[r].cleaned) = 2
         /\ req[r].cleaned[2] = req[r].convResult

\* an upload converted, transcribed and cleaned up
C26_Witness ==
  \E r \in Requests :
    /\ req[r].pc = "done"
    /\ req[r].route = "upload"
    /\ req[r].resp.status = 200
    /\ req[r].convResult =
         <<"uploads/", "1700000000000", "-", "talk", "_converted", ".wav">>
    /\ req[r].uploaded = req[r].convResult
    /\ req[r].cleaned[2] = req[r].convResult

\* how the acquisition of a request's media went: never started, failed
\* (no conversion was started), or done
DownloadOutcome(rec) ==
  IF rec.route = "youtube" /\ rec.audioPath = NoPath THEN "none"
  ELSE IF rec.route = "upload" /\ rec.file = NoFile THEN "none"
  ELSE IF rec.tried = <<>> THEN "failed"
  ELSE "done"

\* the outcomes of a finished request's download, conversion and vendor
\* calls (the vendor's: the call that failed and its answer, the non-terminal
\* answers and the last answer of the polling)
Outcomes(rec) ==
  [download |-> DownloadOutcome(rec),
   conversion |-> <<rec.convError, rec.convResult # NoPath>>,
   vendor |-> <<IF rec.failedCall = NoAnswer THEN "" ELSE FailedCallLabel(rec),
                rec.failedCall, rec.lastPoll, rec.nonterm>>]

\* the stages a finished request ran: download started, conversions
\* started, uploads, job submissions, status requests
StagesRun(rec) ==
  <<DownloadOutcome(rec) # "none", Len(rec.tried), rec.uploads, rec.submits,
    rec.reqs>>

\* which of the two artifacts a finished request asked cleanupFile to delete
Deleted(rec) == [i \in 1..Len(rec.cleaned) |-> rec.cleaned[i] # NoPath]

(***************************************************************************)
(* C27: the two server variants are equivalent on the core pipeline: for   *)
(* the same request without post-processing and the same outcomes of       *)
(* download, conversion and vendor calls, src/server.js and part_000 run   *)
(* the same sequence of stages, answer with the same status and the same   *)
(* transcription fields, and delete the same artifacts.                    *)
(***************************************************************************)
C27_VariantsEquivalent ==
  LET a == req["r1"]
      b == req["r2"] IN
  (/\ a.pc = "done" /\ b.pc = "done"
   /\ a.route = b.route /\ a.url = b.url
   /\ a.file.originalname = b.file.originalname
   /\ a.options = b.options
   /\ ~a.shouldTranslate /\ ~a.shouldFormat
   /\ ~b.shouldTranslate /\ ~b.shouldFormat
   /\ Outcomes(a) = Outcomes(b)) =>
     /\ StagesRun(a) = StagesRun(b)
     /\ a.resp.status = b.resp.status
     /\ a.resp.transcription = b.resp.transcription
     /\ a.resp.confidence = b.resp.confidence
     /\ a.resp.language_detected = b.resp.language_detected
     /\ Deleted(a) = Deleted(b)

====
